---- MODULE Spec2Model ----
(***************************************************************************)
(* signalk-tides: the forecast orchestrator of src/src/index.ts (position  *)
(* resolution, provider fetch, station hysteresis, emitter) and the datum  *)
(* utilities of src/src/datum.ts.                                          *)
(*                                                                         *)
(* Heights are integer-scaled: one unit is a millimetre (0.2 m = 200).     *)
(* Positions lie on one meridian; latitude is counted in metres so that    *)
(* getDistance is the absolute difference of the latitudes.                *)
(***************************************************************************)
EXTENDS Integers, Sequences, FiniteSets, TLC

VARIABLES
  props,             \* plugin configuration handed to start()
  cacheFile,         \* content of <dataDir>/position.json (FileCache key 'position')
  lastPosition,      \* index.ts: let lastPosition
  lastForecast,      \* index.ts: let lastForecast
  preferredStation,  \* index.ts: let preferredStation
  cycles,            \* update cycles suspended at an await, by slot
  pluginStatus,      \* last app.setPluginStatus / app.setPluginError
  unhandled,         \* a promise rejected with nobody awaiting it
  clock,             \* wall clock read by new Date()
  event,             \* the handler step that ran last, its input and its output
  dInit,             \* datum harness: the forecast the calls start from
  dTrace,            \* datum harness: the calls made so far
  hConfig,           \* HarmonicsCache: this.config
  harmonicsFile,     \* content of harmonics-cache/harmonics.json (this.cacheFile)
  backupFile,        \* content of harmonics-cache/harmonics-backup.json
  metadataFile,      \* content of harmonics-cache/metadata.json
  hNow,              \* the day new Date() falls on, for the harmonics cache
  hRun,              \* the updateIfNeeded call suspended at an await, or Null
  hUpdates,          \* updateIfNeeded calls that went on to download
  offlineDb,         \* the database the started offline source holds, or Null
  hEvent,            \* the harmonics step that ran last, its input and its output
  trail,             \* selector harness: the stations preferred so far, in order
  stopped            \* plugin.stop() has returned

vars == <<props, cacheFile, lastPosition, lastForecast, preferredStation,
          cycles, pluginStatus, unhandled, clock, event, dInit, dTrace,
          hConfig, harmonicsFile, backupFile, metadataFile, hNow, hRun,
          hUpdates, offlineDb, hEvent, trail, stopped>>

\* what only the selector and lifecycle harnesses change
lifeVars == <<trail, stopped>>

harmonicsVars == <<hConfig, harmonicsFile, backupFile, metadataFile, hNow, hRun,
                   hUpdates, offlineDb, hEvent>>

engineVars == <<props, cacheFile, lastPosition, lastForecast, preferredStation,
                cycles, pluginStatus, unhandled, clock, event>>

datumVars == <<dInit, dTrace>>

(***************************************************************************)
(* Bounds                                                                  *)
(***************************************************************************)
MaxLen == 2        \* extremes in a forecast of the datum harness
MaxCalls == 2      \* calls in a datum harness trace
MaxCycles == 2     \* update cycles in flight at once
MaxTime == 3       \* last clock value
MaxUpdates == 1    \* updateIfNeeded calls that download
MaxExtremes == 3   \* extremes in a forecast of the emitter harness
MaxSwitches == 3   \* stations the selector harness lets become preferred in a row

(***************************************************************************)
(* Values                                                                  *)
(***************************************************************************)
\* null / undefined
Null == [null |-> TRUE]

Pos(lat) == [latitude |-> lat, longitude |-> 0]

Abs(x) == IF x < 0 THEN -x ELSE x

\* geolib getDistance, metres, on the meridian
getDistance(from, to) == Abs(from.latitude - to.latitude)

ExtremeTypes == {"High", "Low"}
Datums == {"MSL", "MLLW"}

RECURSIVE SeqMin(_)
\* Math.min(...values) of a non-empty list
SeqMin(s) ==
  IF Len(s) = 1 THEN s[1]
  ELSE LET m == SeqMin(Tail(s)) IN IF s[1] < m THEN s[1] ELSE m

\* extremes.map(extreme => ({ ...extreme, value: extreme.value + offset }))
ShiftValues(s, offset) ==
  [i \in 1..Len(s) |-> [time |-> s[i].time, value |-> s[i].value + offset, type |-> s[i].type]]

(***************************************************************************)
(* datum.ts                                                                *)
(***************************************************************************)
\* the 0.2 m margin of estimateMllwOffset, in millimetres
SafetyMargin == 200

\* mutant: the sign of the MSL -> MLLW shift is flipped
convertDatum_addsOffset(forecast, datumInfo, targetDatum) ==
  IF datumInfo.sourceDatum = targetDatum THEN forecast
  ELSE [forecast EXCEPT !.extremes =
          ShiftValues(forecast.extremes, datumInfo.mllwToMslOffset)]

\* mutant: the early return for equal datums is missing
convertDatum_noEarlyReturn(forecast, datumInfo, targetDatum) ==
  LET offset == IF datumInfo.sourceDatum = "MSL"
                THEN -datumInfo.mllwToMslOffset ELSE datumInfo.mllwToMslOffset
  IN [forecast EXCEPT !.extremes = ShiftValues(forecast.extremes, offset)]

\* mutant: the MLLW -> MSL branch leaves the offset at 0
convertDatum_oneWay(forecast, datumInfo, targetDatum) ==
  IF datumInfo.sourceDatum = targetDatum THEN forecast
  ELSE LET offset == IF datumInfo.sourceDatum = "MSL" /\ targetDatum = "MLLW"
                     THEN -datumInfo.mllwToMslOffset ELSE 0
       IN [forecast EXCEPT !.extremes = ShiftValues(forecast.extremes, offset)]

convertDatum(forecast, datumInfo, targetDatum) ==
  IF datumInfo.sourceDatum = targetDatum THEN forecast
  ELSE LET offset ==
             IF datumInfo.sourceDatum = "MSL" /\ targetDatum = "MLLW"
               THEN -datumInfo.mllwToMslOffset
             ELSE IF datumInfo.sourceDatum = "MLLW" /\ targetDatum = "MSL"
               THEN datumInfo.mllwToMslOffset
             ELSE 0
       IN [forecast EXCEPT !.extremes = ShiftValues(forecast.extremes, offset)]

\* mutant: the minimum is taken over all extremes, not only the lows
estimateMllwOffset_allExtremes(forecast) ==
  IF Len(forecast.extremes) = 0 THEN 0
  ELSE LET lowestLow == SeqMin([i \in 1..Len(forecast.extremes) |-> forecast.extremes[i].value])
       IN IF lowestLow < 0 THEN Abs(lowestLow) + SafetyMargin ELSE 0

estimateMllwOffset(forecast) ==
  LET lows == SelectSeq(forecast.extremes, LAMBDA e : e.type = "Low")
  IN IF Len(lows) = 0 THEN 0
     ELSE LET lowestLow == SeqMin([i \in 1..Len(lows) |-> lows[i].value])
          IN IF lowestLow < 0 THEN Abs(lowestLow) + SafetyMargin ELSE 0

(***************************************************************************)
(* Datum harness: convertDatum and estimateMllwOffset are applied to       *)
(* forecasts drawn from a bounded set, and to their own results.           *)
(***************************************************************************)
HarnessValues == {-500, 300, 2000}
HarnessOffsets == {0, 700}
HarnessStation == [name |-> "S", position |-> Pos(0)]

\* time-ascending extremes: the i-th extreme is at time i
HarnessExtremes ==
  UNION {
    { [i \in 1..n |-> [time |-> i, value |-> vs[i], type |-> ts[i]]] :
        vs \in [1..n -> HarnessValues], ts \in [1..n -> ExtremeTypes] } :
    n \in 0..MaxLen }

HarnessForecasts ==
  { [station |-> HarnessStation, extremes |-> ex, datum |-> Null] : ex \in HarnessExtremes }

NoDatumInfo == [sourceDatum |-> "", mllwToMslOffset |-> 0]

\* the forecasts a harness call can be given: the initial one or the last result
HarnessInputs ==
  {dInit} \cup
  (IF Len(dTrace) > 0 /\ dTrace[Len(dTrace)].fn = "convertDatum"
   THEN {dTrace[Len(dTrace)].result} ELSE {})

InitDatum ==
  /\ dInit \in HarnessForecasts
  /\ dTrace = <<>>

CallConvertDatum ==
  /\ Len(dTrace) < MaxCalls
  /\ \E f \in HarnessInputs, src \in Datums, tgt \in Datums, o \in HarnessOffsets :
       LET info == [sourceDatum |-> src, mllwToMslOffset |-> o]
       IN dTrace' = Append(dTrace,
            [fn |-> "convertDatum", forecast |-> f, info |-> info, target |-> tgt,
             result |-> convertDatum(f, info, tgt)])
  /\ UNCHANGED dInit

CallEstimateMllwOffset ==
  /\ Len(dTrace) < MaxCalls
  /\ \E f \in HarnessInputs :
       dTrace' = Append(dTrace,
            [fn |-> "estimateMllwOffset", forecast |-> f, info |-> NoDatumInfo,
             target |-> "", result |-> estimateMllwOffset(f)])
  /\ UNCHANGED dInit

(***************************************************************************)
(* Engine values                                                           *)
(***************************************************************************)
\* navigation.position values of the vessel
VesselPositions == {Pos(0), Pos(400)}

StationA == [name |-> "A", position |-> Pos(800)]
StationB == [name |-> "B", position |-> Pos(995)]
StationC == [name |-> "C", position |-> Pos(1000)]
Stations == {StationA, StationB, StationC}

\* part_006: name: `${nearestStation.name} (Offline)`
OfflineStation(st) ==
  [name |-> (CASE st.name = "A" -> "A (Offline)"
               [] st.name = "B" -> "B (Offline)"
               [] OTHER -> "C (Offline)"),
   position |-> st.position]

\* the datum offset the offline source reports for its stations, in mm
OfflineOffset == 700

\* extremes a source returns: no prediction at all (0), or one of two windows
Windows == 0..2

WindowExtremes(w, low, high) ==
  CASE w = 0 -> <<>>
    [] w = 1 -> <<[time |-> 0, value |-> low, type |-> "Low"],
                  [time |-> 2, value |-> high, type |-> "High"]>>
    [] OTHER -> <<[time |-> 2, value |-> high, type |-> "High"],
                  [time |-> 4, value |-> low, type |-> "Low"]>>

\* results of the online sources (noaa, worldtides, neaps): heights on MLLW/CD, no datum tag
OnlineForecasts ==
  { [station |-> st, extremes |-> WindowExtremes(1, 0, 2000), datum |-> Null] :
      st \in Stations } \cup
  { [station |-> StationA, extremes |-> WindowExtremes(w, 0, 2000), datum |-> Null] :
      w \in Windows }

\* the stations of the harmonics database the offline source predicts from
HarmonicStations == {StationA}

\* results of the offline harmonic source: heights on MSL, tagged with the offset
OfflineForecasts ==
  { [station |-> OfflineStation(st), extremes |-> WindowExtremes(w, -500, 1500),
     datum |-> [source |-> "MSL", mllwToMslOffset |-> OfflineOffset]] :
      st \in HarmonicStations, w \in {1} }

\* what a TideForecastFunction can resolve to
ProviderForecasts == OnlineForecasts \cup OfflineForecasts

\* stationSwitchThreshold is a decimal number of km; the model counts it in 1/KmScale km
KmScale == 1000

\* configurations: stationSwitchThreshold absent (default), 0 (disabled), 0.005 km or 0.01 km
PropsChoices ==
  { [enableOfflineFallback |-> TRUE],
    [enableOfflineFallback |-> FALSE, stationSwitchThreshold |-> 0],
    [enableOfflineFallback |-> TRUE, stationSwitchThreshold |-> 5],
    [enableOfflineFallback |-> TRUE, stationSwitchThreshold |-> 10] }

\* (props.stationSwitchThreshold ?? 10) * 1000, in metres
Threshold ==
  ((IF "stationSwitchThreshold" \in DOMAIN props
    THEN props.stationSwitchThreshold ELSE 10 * KmScale) * 1000) \div KmScale

CycleStates == {"set", "fetch"} \X VesselPositions

RECURSIVE SumOver(_, _)
SumOver(f, S) ==
  IF S = {} THEN 0
  ELSE LET x == CHOOSE y \in S : TRUE IN f[x] + SumOver(f, S \ {x})

\* number of updatePosition calls that have not returned yet
InFlight == SumOver(cycles, CycleStates)

Ev(name, arg, out) == [name |-> name, arg |-> arg, out |-> out]

(***************************************************************************)
(* calculations: approximateTideHeightAt                                   *)
(***************************************************************************)
RECURSIVE InsertByTime(_, _)
\* insert e after every element whose time is <= e.time (the sort is stable)
InsertByTime(e, s) ==
  IF s = <<>> THEN <<e>>
  ELSE IF s[1].time <= e.time THEN <<s[1]>> \o InsertByTime(e, Tail(s))
  ELSE <<e>> \o s

RECURSIVE SortByTime(_)
\* extremes.slice().sort((a, b) => time(a) - time(b))
SortByTime(s) ==
  IF s = <<>> THEN <<>>
  ELSE InsertByTime(s[Len(s)], SortByTime(SubSeq(s, 1, Len(s) - 1)))

\* 10^6 * cos(k * pi / 12)
CosMicro(k) ==
  CASE k = 0 -> 1000000 [] k = 1 -> 965926 [] k = 2 -> 866025 [] k = 3 -> 707107
    [] k = 4 -> 500000 [] k = 5 -> 258819 [] k = 6 -> 0 [] k = 7 -> -258819
    [] k = 8 -> -500000 [] k = 9 -> -707107 [] k = 10 -> -866025 [] k = 11 -> -965926
    [] OTHER -> -1000000

\* 10^6 * (1 - cos(progress * pi)) / 2 for progress = num / den, den a divisor of 12
easeSine(num, den) == (1000000 - CosMicro((12 * num) \div den)) \div 2

\* nearest integer to n / d, d > 0 (toFixed)
RoundDiv(n, d) == (n + d \div 2) \div d

\* start + (end - start) * progress, progress in millionths, rounded to the millimetre
interpolate(start, end, progressMicro) ==
  RoundDiv(start * 1000000 + (end - start) * progressMicro, 1000000)

Threw(message) == [throws |-> TRUE, message |-> message, nan |-> FALSE, value |-> 0]
Height(v) == [throws |-> FALSE, message |-> "", nan |-> FALSE, value |-> v]
NaN == [throws |-> FALSE, message |-> "", nan |-> TRUE, value |-> 0]

approximateTideHeightAt(extremes, time) ==
  LET sorted == SortByTime(extremes)
      before == SelectSeq(sorted, LAMBDA h : h.time <= time)
      after == SelectSeq(sorted, LAMBDA h : h.time >= time)
  IN IF before = <<>> THEN Threw("Missing height data before")
     ELSE IF after = <<>> THEN Threw("Missing height data after")
     ELSE LET prev == before[Len(before)]
              next == after[1]
          IN IF next.time = prev.time THEN NaN   \* progress is 0 / 0
             ELSE Height(interpolate(prev.value, next.value,
                                     easeSine(time - prev.time, next.time - prev.time)))

(***************************************************************************)
(* index.ts: the emitter                                                   *)
(***************************************************************************)
HeightPath(type) ==
  IF type = "High" THEN "environment.tide.heightHigh" ELSE "environment.tide.heightLow"

TimePath(type) ==
  IF type = "High" THEN "environment.tide.timeHigh" ELSE "environment.tide.timeLow"

\* lastForecast.extremes.filter(({ time }) => new Date(time) >= now).slice(0, 2)
nextTides(forecast, now) ==
  LET upcoming == SelectSeq(forecast.extremes, LAMBDA e : e.time >= now)
  IN SubSeq(upcoming, 1, IF Len(upcoming) < 2 THEN Len(upcoming) ELSE 2)

RECURSIVE TideValues(_)
\* nextTides.flatMap(({ type, time, value }) => [height<type>, time<type>])
TideValues(tides) ==
  IF tides = <<>> THEN <<>>
  ELSE <<[path |-> HeightPath(tides[1].type), value |-> tides[1].value],
         [path |-> TimePath(tides[1].type), value |-> tides[1].time]>>
       \o TideValues(Tail(tides))

\* the outcome of one updateTides(now) run on the held forecast
updateTides(forecast, now) ==
  IF forecast = Null THEN [kind |-> "none"]
  ELSE LET heightNow == approximateTideHeightAt(forecast.extremes, now)
       IN IF heightNow.throws THEN [kind |-> "rejected", message |-> heightNow.message]
          ELSE [kind |-> "delta",
                timestamp |-> now,
                stationName |-> forecast.station.name,
                heightNow |-> heightNow,
                values |-> TideValues(nextTides(forecast, now))]

(***************************************************************************)
(* index.ts: the orchestrator                                              *)
(***************************************************************************)
\* mutant: the persisted position wins over the live one
ResolvePosition_cacheFirst(nav, cached) == IF cached # Null THEN cached ELSE nav

\* app.getSelfPath('navigation.position.value') || await cache.get('position') || null
ResolvePosition(nav, cached) == IF nav # Null THEN nav ELSE cached

\* mutant: the margin is granted to the candidate
ShouldSwitch_withinMargin(distanceToNew, distanceToPreferred, threshold) ==
  distanceToNew < distanceToPreferred + threshold

\* mutant: the margin is left out of the comparison
ShouldSwitch_noMargin(distanceToNew, distanceToPreferred, threshold) ==
  distanceToNew < distanceToPreferred

\* distanceToNew < distanceToPreferred - threshold
ShouldSwitch(distanceToNew, distanceToPreferred, threshold) ==
  distanceToNew < distanceToPreferred - threshold

Adopt(newForecast) ==
  [threw |-> FALSE, preferredStation |-> newForecast.station, lastForecast |-> newForecast]

Keep(preferred, held, threw) ==
  [threw |-> threw, preferredStation |-> preferred, lastForecast |-> held]

\* mutant: a threshold of 0 no longer disables the comparison
SelectStation_alwaysCompare(position, preferred, held, newForecast, threshold) ==
  IF preferred # Null
  THEN IF ShouldSwitch(getDistance(position, newForecast.station.position),
                       getDistance(position, preferred.position), threshold)
       THEN Adopt(newForecast)
       ELSE Keep(preferred, held, FALSE)
  ELSE Adopt(newForecast)

\* mutant: a candidate that is not adopted still becomes the preferred station
SelectStation_prefersCandidate(position, preferred, held, newForecast, threshold) ==
  IF preferred # Null /\ threshold > 0
  THEN IF position = Null
       THEN Keep(preferred, held, TRUE)
       ELSE IF ShouldSwitch(getDistance(position, newForecast.station.position),
                            getDistance(position, preferred.position), threshold)
            THEN Adopt(newForecast)
            ELSE Keep(newForecast.station, held, FALSE)
  ELSE Adopt(newForecast)

\* the station selection of updateForecast, from the fetched forecast to the assignments
SelectStation(position, preferred, held, newForecast, threshold) ==
  IF preferred # Null /\ threshold > 0
  THEN IF position = Null
       THEN Keep(preferred, held, TRUE)      \* getDistance(null, ...) throws
       ELSE IF ShouldSwitch(getDistance(position, newForecast.station.position),
                            getDistance(position, preferred.position), threshold)
            THEN Adopt(newForecast)
            ELSE Keep(preferred, held, FALSE)
  ELSE Adopt(newForecast)

\* mutant: a failed fetch clears the held state
CatchFetchError_clears(preferred, held) ==
  [preferredStation |-> Null, lastForecast |-> Null, pluginStatus |-> "error"]

\* catch (e) { app.setPluginError(errorMessage); app.error(e) }
CatchFetchError(preferred, held) ==
  [preferredStation |-> preferred, lastForecast |-> held, pluginStatus |-> "error"]

\* position.json as an earlier run left it: absent, or the last position of that run
PersistedPositions == {Null, Pos(400)}

InitEngine ==
  /\ props \in PropsChoices
  /\ cacheFile \in PersistedPositions
  /\ lastPosition = Null
  /\ lastForecast = Null
  /\ preferredStation = Null
  /\ cycles = [c \in CycleStates |-> 0]
  /\ pluginStatus = ""
  /\ unhandled = FALSE
  /\ clock = 0
  /\ event = Ev("start", Null, Null)

\* updatePosition up to its first await on cache.set
UpdatePosition ==
  \E nav \in VesselPositions \cup {Null} :
    LET position == ResolvePosition(nav, cacheFile)
    IN /\ lastPosition' = position
       /\ IF position # Null
          THEN /\ InFlight < MaxCycles
               /\ cycles' = [cycles EXCEPT ![<<"set", position>>] = @ + 1]
          ELSE UNCHANGED cycles
       /\ event' = Ev("updatePosition", nav, position)
       /\ UNCHANGED <<props, cacheFile, lastForecast, preferredStation,
                      pluginStatus, unhandled, clock>>

\* cache.set writes the file; updatePosition goes on into updateForecast up to the provider call
CacheSetDone ==
  \E value \in VesselPositions :
    /\ cycles[<<"set", value>>] > 0
    /\ cacheFile' = value
    /\ IF lastPosition = Null
       THEN /\ cycles' = [cycles EXCEPT ![<<"set", value>>] = @ - 1]
            /\ event' = Ev("cacheSet", value, Null)
       ELSE /\ cycles' = [cycles EXCEPT ![<<"set", value>>] = @ - 1,
                                        ![<<"fetch", lastPosition>>] = @ + 1]
            /\ event' = Ev("cacheSet", value, [provider |-> lastPosition])
    /\ UNCHANGED <<props, lastPosition, lastForecast, preferredStation,
                   pluginStatus, unhandled, clock>>

\* mkdir or writeFile fails: updatePosition rejects before updateForecast is reached
CacheSetFail ==
  \E value \in VesselPositions :
    /\ cycles[<<"set", value>>] > 0
    /\ cycles' = [cycles EXCEPT ![<<"set", value>>] = @ - 1]
    /\ unhandled' = TRUE
    /\ event' = Ev("cacheSetFailed", value, Null)
    /\ UNCHANGED <<props, cacheFile, lastPosition, lastForecast, preferredStation,
                   pluginStatus, clock>>

\* the provider resolves: station selection, status, updateTides()
FetchResolve ==
  \E position \in VesselPositions, newForecast \in ProviderForecasts :
    /\ cycles[<<"fetch", position>>] > 0
    /\ cycles' = [cycles EXCEPT ![<<"fetch", position>>] = @ - 1]
    /\ LET sel == SelectStation(lastPosition, preferredStation, lastForecast,
                                newForecast, Threshold)
       IN IF sel.threw
          THEN LET c == CatchFetchError(preferredStation, lastForecast)
               IN /\ preferredStation' = c.preferredStation
                  /\ lastForecast' = c.lastForecast
                  /\ pluginStatus' = c.pluginStatus
                  /\ unhandled' = unhandled
                  /\ event' = Ev("fetchResolved", newForecast, Null)
          ELSE LET out == updateTides(sel.lastForecast, clock)
               IN /\ preferredStation' = sel.preferredStation
                  /\ lastForecast' = sel.lastForecast
                  /\ pluginStatus' = "status"
                  /\ unhandled' = (unhandled \/ out.kind = "rejected")
                  /\ event' = Ev("fetchResolved", newForecast, out)
    /\ UNCHANGED <<props, cacheFile, lastPosition, clock>>

\* the provider rejects
FetchReject ==
  \E position \in VesselPositions :
    /\ cycles[<<"fetch", position>>] > 0
    /\ cycles' = [cycles EXCEPT ![<<"fetch", position>>] = @ - 1]
    /\ LET c == CatchFetchError(preferredStation, lastForecast)
       IN /\ preferredStation' = c.preferredStation
          /\ lastForecast' = c.lastForecast
          /\ pluginStatus' = c.pluginStatus
    /\ event' = Ev("fetchRejected", position, Null)
    /\ UNCHANGED <<props, cacheFile, lastPosition, unhandled, clock>>

\* mutant: a run that fails drops the held forecast
UpdateTidesTimer_dropsForecast ==
  LET out == updateTides(lastForecast, clock)
  IN /\ unhandled' = (unhandled \/ out.kind = "rejected")
     /\ event' = Ev("updateTides", Null, out)
     /\ lastForecast' = (IF out.kind = "rejected" THEN Null ELSE lastForecast)
     /\ UNCHANGED <<props, cacheFile, lastPosition, preferredStation,
                    cycles, pluginStatus, clock>>

\* setInterval(updateTides, 60 * 1000) fires
UpdateTidesTimer ==
  LET out == updateTides(lastForecast, clock)
  IN /\ unhandled' = (unhandled \/ out.kind = "rejected")
     /\ event' = Ev("updateTides", Null, out)
     /\ UNCHANGED <<props, cacheFile, lastPosition, lastForecast, preferredStation,
                    cycles, pluginStatus, clock>>

\* a date request parameter, as the day it names
QueryDate == [day |-> 5]

\* a position request parameter, as the HTTP query string carries it
QueryPosition == [text |-> "position"]

\* the query of a request to the tides resource: no parameter, or a date and a position
Queries ==
  { [date |-> Null, position |-> Null],
    [date |-> QueryDate, position |-> QueryPosition] }

\* { position: lastPosition, ...query }: the parameters of the query replace the defaults
ProviderParams(position, query) ==
  [position |-> IF query.position # Null THEN query.position ELSE position,
   date |-> query.date]

\* what listResources(query) does: the provider call it makes, if any, and what it answers
listResources(held, position, query) ==
  IF held # Null THEN {[request |-> Null, outcome |-> held]}
  ELSE IF position = Null
  THEN {[request |-> Null, outcome |-> [error |-> "No position available"]]}
  ELSE { [request |-> ProviderParams(position, query), outcome |-> outcome] :
           outcome \in ProviderForecasts \cup {[error |-> "provider"]} }

\* the tides resource is listed
ListResources ==
  /\ \E query \in Queries :
       \E result \in listResources(lastForecast, lastPosition, query) :
         event' = Ev("listResources", [query |-> query, request |-> result.request],
                     result.outcome)
  /\ UNCHANGED <<props, cacheFile, lastPosition, lastForecast, preferredStation,
                 cycles, pluginStatus, unhandled, clock>>

\* time passes
Tick ==
  /\ clock < MaxTime
  /\ clock' = clock + 1
  /\ event' = Ev("tick", Null, Null)
  /\ UNCHANGED <<props, cacheFile, lastPosition, lastForecast, preferredStation,
                 cycles, pluginStatus, unhandled>>

(***************************************************************************)
(* datum.ts: HarmonicsCache                                                *)
(*                                                                         *)
(* Distances are compared in metres: getDistance(a, b) / 1852 <= r is      *)
(* getDistance(a, b) <= r * 1852. Dates are counted in whole days.         *)
(***************************************************************************)
\* metres in a nautical mile
MetresPerNM == 1852

\* the distance from the cached center, in nm, beyond which the region is left
LeaveRegionNM == 300

\* what one expansion adds to the radius, in nm
RadiusStep == 200

\* a position n nautical miles up the meridian
NMPos(n) == Pos(n * MetresPerNM)

PRIMARY_CONSTITUENTS == <<"M2", "S2", "N2", "K2", "K1", "O1", "P1", "Q1">>

PrimaryNames == { PRIMARY_CONSTITUENTS[i] : i \in 1..Len(PRIMARY_CONSTITUENTS) }

\* the order localeCompare puts the constituent names in
NameRank(name) ==
  CASE name = "K1" -> 1 [] name = "K2" -> 2 [] name = "M2" -> 3 [] name = "N2" -> 4
    [] name = "O1" -> 5 [] name = "P1" -> 6 [] name = "Q1" -> 7 [] OTHER -> 8

RECURSIVE InsertByName(_, _)
InsertByName(n, s) ==
  IF s = <<>> THEN <<n>>
  ELSE IF NameRank(s[1]) <= NameRank(n) THEN <<s[1]>> \o InsertByName(n, Tail(s))
  ELSE <<n>> \o s

RECURSIVE SortByName(_)
\* constituents.sort((a, b) => a.name.localeCompare(b.name))
SortByName(s) ==
  IF s = <<>> THEN <<>>
  ELSE InsertByName(s[Len(s)], SortByName(SubSeq(s, 1, Len(s) - 1)))

RECURSIVE InsertByLatDesc(_, _)
InsertByLatDesc(st, s) ==
  IF s = <<>> THEN <<st>>
  ELSE IF s[1].lat >= st.lat THEN <<s[1]>> \o InsertByLatDesc(st, Tail(s))
  ELSE <<st>> \o s

RECURSIVE SortByLatDesc(_)
\* stations.sort((a, b) => b.lat - a.lat)
SortByLatDesc(s) ==
  IF s = <<>> THEN <<>>
  ELSE InsertByLatDesc(s[Len(s)], SortByLatDesc(SubSeq(s, 1, Len(s) - 1)))

\* a file that holds something JSON.parse rejects (a write that stopped half way)
Corrupt == [corrupt |-> TRUE]

\* JSON.stringify(value, null, 2) as the content of a file
Stringify(value) == [text |-> value]

\* existsSync + readFileSync + JSON.parse inside try/catch: the value, or null
Parse(file) == IF file = Null \/ file = Corrupt THEN Null ELSE file.text

loadCache(file) == Parse(file)

loadMetadata(file) == Parse(file)

\* the configurations of the cache manager
DefaultHarmonicsConfig ==
  [autoDownloadRadius |-> 500, updateFrequency |-> "quarterly", minStations |-> 2,
   expandRadiusIfNeeded |-> TRUE, maxRadius |-> 1000]

HConfigChoices ==
  { DefaultHarmonicsConfig,
    [autoDownloadRadius |-> 500, updateFrequency |-> "manual", minStations |-> 2,
     expandRadiusIfNeeded |-> FALSE, maxRadius |-> 1000],
    [autoDownloadRadius |-> 500, updateFrequency |-> "semiannual", minStations |-> 1,
     expandRadiusIfNeeded |-> TRUE, maxRadius |-> 900],
    [autoDownloadRadius |-> 1200, updateFrequency |-> "annual", minStations |-> 1,
     expandRadiusIfNeeded |-> FALSE, maxRadius |-> 1000] }

\* the days the harmonics cache is looked at; an earlier run was on day 0
Days == {90, 91, 366}

\* where the vessel is when the cache manager is asked
HPositions == {NMPos(0), NMPos(300), NMPos(301)}

\* stations of the remote catalog (stations.json?type=harcon)
CatalogH1 == [id |-> "H1", name |-> "H1", lat |-> 100 * MetresPerNM, lng |-> 0]
CatalogH2 == [id |-> "H2", name |-> "H2", lat |-> 950 * MetresPerNM, lng |-> 0]
CatalogIds == {"H1", "H2"}

\* what fetchAllStations gives: it throws (Null), or the list of the day
CatalogResponses ==
  {Null, [stations |-> <<>>], [stations |-> <<CatalogH1>>],
   [stations |-> <<CatalogH1, CatalogH2>>]}

\* what fetchStationHarmonics gives for one station: it throws, or the constituent names
HarconFailed == [ok |-> FALSE, names |-> <<>>]
HarconFull == [ok |-> TRUE, names |-> <<"M2", "S2", "M4", "N2", "K2", "K1", "O1", "P1", "Q1">>]
HarconMissing == [ok |-> TRUE, names |-> <<"M2", "S2", "N2", "K2", "K1", "O1", "P1">>]
HarconRepeated == [ok |-> TRUE, names |-> <<"M2", "M2", "S2", "N2", "K2", "K1", "O1", "P1">>]
HarconOutcomes == {HarconFailed, HarconFull, HarconMissing, HarconRepeated}

\* the answers of the remote service to the harmonics requests of one download
HarconResponses ==
  { h \in [CatalogIds -> HarconOutcomes] : h["H2"] \in {HarconFailed, HarconFull} }

\* fetchStationDatum: MSL - MLLW of the station in mm, 0 when the datums are not served
fetchStationDatum(stationId) == IF stationId = "H1" THEN 700 ELSE 0

StationPos(station) == [latitude |-> station.lat, longitude |-> station.lon]

\* getDistance(from, to) / 1852 <= radiusNM
WithinNM(from, to, radiusNM) == getDistance(from, to) <= radiusNM * MetresPerNM

Reason(text, n) == [text |-> text, n |-> n]

\* maxDays of the update frequency
MaxDays(updateFrequency) ==
  CASE updateFrequency = "quarterly" -> 90
    [] updateFrequency = "semiannual" -> 180
    [] OTHER -> 365

\* cache.stations.filter(station => stationDistance <= autoDownloadRadius)
NearbyStations(cache, currentPosition, radiusNM) ==
  SelectSeq(cache.stations, LAMBDA st : WithinNM(currentPosition, StationPos(st), radiusNM))

\* mutant: the age rule also applies to the manual policy
shouldUpdate_manualExpires(config, metadata, cache, now, currentPosition) ==
  IF metadata = Null THEN [update |-> TRUE, reason |-> Reason("No cache exists", 0)]
  ELSE IF now - metadata.lastUpdate > MaxDays(config.updateFrequency)
  THEN [update |-> TRUE, reason |-> Reason("Cache expired", now - metadata.lastUpdate)]
  ELSE IF getDistance(currentPosition, metadata.center) > LeaveRegionNM * MetresPerNM
  THEN [update |-> TRUE,
        reason |-> Reason("Vessel moved",
                          RoundDiv(getDistance(currentPosition, metadata.center), MetresPerNM))]
  ELSE IF cache # Null
          /\ Len(NearbyStations(cache, currentPosition, config.autoDownloadRadius))
               < config.minStations
  THEN [update |-> TRUE,
        reason |-> Reason("Only stations within",
                          Len(NearbyStations(cache, currentPosition, config.autoDownloadRadius)))]
  ELSE [update |-> FALSE, reason |-> Reason("Cache is current", 0)]

\* mutant: the station count of the cached database is not looked at
shouldUpdate_noStationRule(config, metadata, cache, now, currentPosition) ==
  IF metadata = Null THEN [update |-> TRUE, reason |-> Reason("No cache exists", 0)]
  ELSE IF config.updateFrequency # "manual"
          /\ now - metadata.lastUpdate > MaxDays(config.updateFrequency)
  THEN [update |-> TRUE, reason |-> Reason("Cache expired", now - metadata.lastUpdate)]
  ELSE IF getDistance(currentPosition, metadata.center) > LeaveRegionNM * MetresPerNM
  THEN [update |-> TRUE,
        reason |-> Reason("Vessel moved",
                          RoundDiv(getDistance(currentPosition, metadata.center), MetresPerNM))]
  ELSE [update |-> FALSE, reason |-> Reason("Cache is current", 0)]

\* shouldUpdate on what loadMetadata() and loadCache() read
shouldUpdate(config, metadata, cache, now, currentPosition) ==
  IF metadata = Null THEN [update |-> TRUE, reason |-> Reason("No cache exists", 0)]
  ELSE IF config.updateFrequency # "manual"
          /\ now - metadata.lastUpdate > MaxDays(config.updateFrequency)
  THEN [update |-> TRUE, reason |-> Reason("Cache expired", now - metadata.lastUpdate)]
  ELSE IF getDistance(currentPosition, metadata.center) > LeaveRegionNM * MetresPerNM
  THEN [update |-> TRUE,
        reason |-> Reason("Vessel moved",
                          RoundDiv(getDistance(currentPosition, metadata.center), MetresPerNM))]
  ELSE IF cache # Null
          /\ Len(NearbyStations(cache, currentPosition, config.autoDownloadRadius))
               < config.minStations
  THEN [update |-> TRUE,
        reason |-> Reason("Only stations within",
                          Len(NearbyStations(cache, currentPosition, config.autoDownloadRadius)))]
  ELSE [update |-> FALSE, reason |-> Reason("Cache is current", 0)]

\* convertStation: the station with its primary constituents, or null when fewer than 8 are kept
convertStation(stationData, harmonicsData, datumOffset) ==
  LET constituents == SelectSeq(harmonicsData.names, LAMBDA n : n \in PrimaryNames)
  IN IF Len(constituents) < Len(PRIMARY_CONSTITUENTS) THEN Null
     ELSE [id |-> stationData.id, name |-> stationData.name, lat |-> stationData.lat,
           lon |-> stationData.lng, offset |-> datumOffset,
           constituents |-> SortByName(constituents)]

RECURSIVE DownloadStations(_, _)
\* the for loop of downloadRegion: one station after the other, failures skipped
DownloadStations(nearbyStations, harcon) ==
  IF nearbyStations = <<>> THEN <<>>
  ELSE LET station == nearbyStations[1]
           harmonicsData == harcon[station.id]
           converted == IF harmonicsData.ok
                        THEN convertStation(station, harmonicsData, fetchStationDatum(station.id))
                        ELSE Null
       IN (IF converted # Null THEN <<converted>> ELSE <<>>)
          \o DownloadStations(Tail(nearbyStations), harcon)

\* mutant: the stations are left in the order of the catalog
downloadRegion_unsorted(center, radiusNM, catalog, harcon, now) ==
  IF catalog = Null THEN Null
  ELSE LET nearbyStations ==
             SelectSeq(catalog.stations,
                       LAMBDA s : WithinNM(center, [latitude |-> s.lat, longitude |-> s.lng],
                                           radiusNM))
       IN IF Len(nearbyStations) = 0 THEN Null
          ELSE [version |-> now, center |-> center, radiusNM |-> radiusNM,
                stations |-> DownloadStations(nearbyStations, harcon)]

\* downloadRegion: catalog is what fetchAllStations gave, harcon what each station's fetch gave
downloadRegion(center, radiusNM, catalog, harcon, now) ==
  IF catalog = Null THEN Null
  ELSE LET nearbyStations ==
             SelectSeq(catalog.stations,
                       LAMBDA s : WithinNM(center, [latitude |-> s.lat, longitude |-> s.lng],
                                           radiusNM))
       IN IF Len(nearbyStations) = 0 THEN Null
          ELSE [version |-> now, center |-> center, radiusNM |-> radiusNM,
                stations |-> SortByLatDesc(DownloadStations(nearbyStations, harcon))]

\* the catalog stations within the radius, each with what its harmonics request gave;
\* none when the catalog fetch failed
NearbyFetched(center, radiusNM, catalog, harcon) ==
  IF catalog = Null THEN <<>>
  ELSE LET nearbyStations ==
             SelectSeq(catalog.stations,
                       LAMBDA s : WithinNM(center, [latitude |-> s.lat, longitude |-> s.lng],
                                           radiusNM))
       IN [i \in 1..Len(nearbyStations) |->
             [station |-> nearbyStations[i], harmonicsData |-> harcon[nearbyStations[i].id]]]

\* the ids of the catalog stations the remote service serves convertible harmonics for
Convertible(catalog, harcon) ==
  IF catalog = Null THEN {}
  ELSE { catalog.stations[i].id :
           i \in { j \in 1..Len(catalog.stations) :
                     /\ harcon[catalog.stations[j].id].ok
                     /\ convertStation(catalog.stations[j], harcon[catalog.stations[j].id],
                                       fetchStationDatum(catalog.stations[j].id)) # Null } }

\* what one downloadRegion call can come to, over the answers of the remote service
DownloadResults(center, radiusNM, now) ==
  { [catalog |-> IF catalog = Null THEN "failed" ELSE "fetched",
     nearby |-> NearbyFetched(center, radiusNM, catalog, harcon),
     convertible |-> Convertible(catalog, harcon),
     database |-> downloadRegion(center, radiusNM, catalog, harcon, now)] :
      catalog \in CatalogResponses, harcon \in HarconResponses }

\* the stations of a downloadRegion result, 0 for null
StationCount(database) == IF database = Null THEN 0 ELSE Len(database.stations)

\* mutant: the radius is expanded whether or not expandRadiusIfNeeded is set
LoopStep_alwaysExpands(radius, database, config) ==
  IF database # Null /\ Len(database.stations) >= config.minStations
  THEN [again |-> FALSE, radius |-> radius]
  ELSE IF radius < config.maxRadius
  THEN [again |-> radius + RadiusStep <= config.maxRadius, radius |-> radius + RadiusStep]
  ELSE [again |-> FALSE, radius |-> radius]

\* the body of the while loop after the download, and the loop condition that follows
LoopStep(radius, database, config) ==
  IF database # Null /\ Len(database.stations) >= config.minStations
  THEN [again |-> FALSE, radius |-> radius]
  ELSE IF config.expandRadiusIfNeeded /\ radius < config.maxRadius
  THEN [again |-> radius + RadiusStep <= config.maxRadius, radius |-> radius + RadiusStep]
  ELSE [again |-> FALSE, radius |-> radius]

Files(primary, backup, metadata) ==
  [cacheFile |-> primary, backupFile |-> backup, metadataFile |-> metadata]

\* a write that throws leaves the file as it was, or cut short
FailedWrite(file, partial) == IF partial THEN Corrupt ELSE file

CacheMetadata(database, now) ==
  [lastUpdate |-> now, center |-> database.center, radiusNM |-> database.radiusNM,
   stationCount |-> Len(database.stations), noaaVersion |-> database.version]

\* the writes saveCache can fail at
FailPoints(primary) ==
  {"none", "primary", "metadata"} \cup (IF primary # Null THEN {"backup"} ELSE {})

\* how a save can go: every write succeeds, or the named write throws
SaveOutcomes(primary) ==
  { outcome \in FailPoints(primary) \X BOOLEAN : outcome[1] = "none" => ~outcome[2] }

\* mutant: the primary is overwritten before it is copied to the backup
saveCache_primaryFirst(files, database, now, fail, partial) ==
  IF fail = "primary"
  THEN [files EXCEPT !.cacheFile = FailedWrite(@, partial)]
  ELSE IF fail = "backup"
  THEN [files EXCEPT !.cacheFile = Stringify(database), !.backupFile = FailedWrite(@, partial)]
  ELSE IF fail = "metadata"
  THEN Files(Stringify(database), Stringify(database), FailedWrite(files.metadataFile, partial))
  ELSE Files(Stringify(database), Stringify(database), Stringify(CacheMetadata(database, now)))

\* saveCache: backup, primary, metadata, in this order; the first write that throws ends it
saveCache(files, database, now, fail, partial) ==
  LET backup == IF files.cacheFile # Null THEN files.cacheFile ELSE files.backupFile
  IN IF fail = "backup"
     THEN [files EXCEPT !.backupFile = FailedWrite(@, partial)]
     ELSE IF fail = "primary"
     THEN Files(FailedWrite(files.cacheFile, partial), backup, files.metadataFile)
     ELSE IF fail = "metadata"
     THEN Files(Stringify(database), backup, FailedWrite(files.metadataFile, partial))
     ELSE Files(Stringify(database), backup, Stringify(CacheMetadata(database, now)))

\* what an updateIfNeeded step reports: the check, the attempts so far, and on return the result
Step(check, attempts, database, done, returned, fail) ==
  [check |-> check, attempts |-> attempts, database |-> database, done |-> done,
   returned |-> returned, fail |-> fail]

\* the database an earlier run downloaded at 0 nm with a radius of 1000 nm
PersistedDatabase ==
  downloadRegion(NMPos(0), 1000, [stations |-> <<CatalogH1, CatalogH2>>],
                 [id \in CatalogIds |-> HarconFull], 0)

\* the cache directory as an earlier run left it: empty, or one saved database
PersistedFiles ==
  { Files(Null, Null, Null),
    saveCache(Files(Null, Null, Null), PersistedDatabase, 0, "none", FALSE) }

InitHarmonics ==
  /\ hConfig \in HConfigChoices
  /\ \E files \in PersistedFiles :
       /\ harmonicsFile = files.cacheFile
       /\ backupFile = files.backupFile
       /\ metadataFile = files.metadataFile
  /\ hNow = 90
  /\ hRun = Null
  /\ hUpdates = 0
  /\ offlineDb = Null
  /\ hEvent = Ev("start", Null, Null)

\* the cache manager and the offline source are not in use
HarmonicsIdle ==
  /\ hConfig = DefaultHarmonicsConfig
  /\ harmonicsFile = Null
  /\ backupFile = Null
  /\ metadataFile = Null
  /\ hNow = 0
  /\ hRun = Null
  /\ hUpdates = 0
  /\ offlineDb = Null
  /\ hEvent = Ev("start", Null, Null)

\* days pass between two calls
HAdvance ==
  /\ hRun = Null
  /\ \E d \in Days : d > hNow /\ hNow' = d
  /\ hEvent' = Ev("advance", Null, Null)
  /\ UNCHANGED <<hConfig, harmonicsFile, backupFile, metadataFile, hRun, hUpdates, offlineDb>>

\* mutant: the download is started whatever shouldUpdate answers
UpdateIfNeeded_ignoresCheck ==
  /\ hRun = Null
  /\ \E currentPosition \in HPositions :
       LET check == shouldUpdate(hConfig, loadMetadata(metadataFile), loadCache(harmonicsFile),
                                 hNow, currentPosition)
       IN IF hConfig.autoDownloadRadius <= hConfig.maxRadius
          THEN /\ hUpdates < MaxUpdates
               /\ hUpdates' = hUpdates + 1
               /\ hRun' = [position |-> currentPosition,
                           radius |-> hConfig.autoDownloadRadius, attempts |-> <<>>]
               /\ hEvent' = Ev("updateIfNeeded", currentPosition,
                               Step(check, <<>>, Null, FALSE, Null, "none"))
          ELSE /\ hRun' = Null
               /\ hUpdates' = hUpdates
               /\ hEvent' = Ev("updateIfNeeded", currentPosition,
                               Step(check, <<>>, Null, TRUE, loadCache(harmonicsFile), "none"))
  /\ UNCHANGED <<hConfig, harmonicsFile, backupFile, metadataFile, hNow, offlineDb>>

\* updateIfNeeded up to its first await: the check, and the return when nothing is downloaded
UpdateIfNeeded ==
  /\ hRun = Null
  /\ \E currentPosition \in HPositions :
       LET check == shouldUpdate(hConfig, loadMetadata(metadataFile), loadCache(harmonicsFile),
                                 hNow, currentPosition)
       IN IF check.update /\ hConfig.autoDownloadRadius <= hConfig.maxRadius
          THEN /\ hUpdates < MaxUpdates
               /\ hUpdates' = hUpdates + 1
               /\ hRun' = [position |-> currentPosition,
                           radius |-> hConfig.autoDownloadRadius, attempts |-> <<>>]
               /\ hEvent' = Ev("updateIfNeeded", currentPosition,
                               Step(check, <<>>, Null, FALSE, Null, "none"))
          ELSE /\ hRun' = Null
               /\ hUpdates' = hUpdates
               /\ hEvent' = Ev("updateIfNeeded", currentPosition,
                               Step(check, <<>>, Null, TRUE, loadCache(harmonicsFile), "none"))
  /\ UNCHANGED <<hConfig, harmonicsFile, backupFile, metadataFile, hNow, offlineDb>>

\* one downloadRegion of the while loop returns; the loop goes on, or updateIfNeeded
\* saves and returns
DownloadRegion ==
  /\ hRun # Null
  /\ \E result \in DownloadResults(hRun.position, hRun.radius, hNow) :
       LET database == result.database
           attempts == Append(hRun.attempts,
                              [radius |-> hRun.radius, stations |-> StationCount(database)])
           step == LoopStep(hRun.radius, database, hConfig)
           arg == [center |-> hRun.position, radiusNM |-> hRun.radius,
                   nearby |-> result.nearby, convertible |-> result.convertible]
       IN /\ pluginStatus' = (IF result.catalog = "failed" THEN "error" ELSE "status")
          /\ IF step.again
             THEN /\ hRun' = [hRun EXCEPT !.radius = step.radius, !.attempts = attempts]
                  /\ hEvent' = Ev("downloadRegion", arg,
                                  Step(Null, attempts, database, FALSE, Null, "none"))
                  /\ UNCHANGED <<harmonicsFile, backupFile, metadataFile>>
             ELSE /\ hRun' = Null
                  /\ IF database # Null
                     THEN \E outcome \in SaveOutcomes(harmonicsFile) :
                            LET fail == outcome[1]
                                saved == saveCache(Files(harmonicsFile, backupFile, metadataFile),
                                                   database, hNow, fail, outcome[2])
                            IN /\ harmonicsFile' = saved.cacheFile
                               /\ backupFile' = saved.backupFile
                               /\ metadataFile' = saved.metadataFile
                               /\ hEvent' = Ev("downloadRegion", arg,
                                               Step(Null, attempts, database, TRUE,
                                                    database, fail))
                     ELSE /\ UNCHANGED <<harmonicsFile, backupFile, metadataFile>>
                          /\ hEvent' = Ev("downloadRegion", arg,
                                          Step(Null, attempts, database, TRUE,
                                               loadCache(harmonicsFile), "none"))
  /\ UNCHANGED <<hConfig, hNow, hUpdates, offlineDb>>

(***************************************************************************)
(* sources/offline: the harmonic predictor's use of the cached database    *)
(***************************************************************************)
\* data/noaa-harmonics.json, the database bundled with the plugin
BundledDatabase ==
  [version |-> 0, center |-> NMPos(2000), radiusNM |-> 0,
   stations |-> <<[id |-> "HB", name |-> "HB", lat |-> 2000 * MetresPerNM, lon |-> 0,
                   offset |-> 0, constituents |-> SortByName(PRIMARY_CONSTITUENTS)]>>]

\* start(): the cached database when the file exists and parses, else the bundled one
OfflineLoad(file) == IF Parse(file) # Null THEN Parse(file) ELSE BundledDatabase

\* findNearestStation: the first station no other station is nearer than
findNearestStation(position, database) ==
  LET stations == database.stations
      d(i) == getDistance(position, StationPos(stations[i]))
  IN IF stations = <<>> THEN [error |-> "No harmonic stations available in database"]
     ELSE stations[CHOOSE i \in 1..Len(stations) :
                     /\ \A j \in 1..Len(stations) : d(i) <= d(j)
                     /\ \A j \in 1..(i - 1) : d(j) > d(i)]

\* where forecasts of the offline source are asked for
OfflinePositions == {NMPos(0), NMPos(301)}

\* the offline source is started: it reads the cache file once
OfflineStart ==
  /\ offlineDb' = OfflineLoad(harmonicsFile)
  /\ hEvent' = Ev("offlineStart", Null, Null)
  /\ UNCHANGED <<hConfig, harmonicsFile, backupFile, metadataFile, hNow, hRun, hUpdates>>

\* the provider the offline source returned is called
OfflineForecast ==
  /\ offlineDb # Null
  /\ \E position \in OfflinePositions :
       LET nearestStation == findNearestStation(position, offlineDb)
       IN hEvent' = Ev("offlineForecast", [position |-> position, database |-> offlineDb],
                       IF "error" \in DOMAIN nearestStation THEN nearestStation
                       ELSE [station |-> [name |-> nearestStation.name,
                                          position |-> StationPos(nearestStation)],
                             datum |-> [source |-> "MSL",
                                        mllwToMslOffset |-> nearestStation.offset]])
  /\ UNCHANGED <<hConfig, harmonicsFile, backupFile, metadataFile, hNow, hRun, hUpdates,
                 offlineDb>>

\* no station has been preferred yet and the plugin has not been stopped
LifeIdle ==
  /\ trail = <<>>
  /\ stopped = FALSE

Init ==
  /\ InitEngine
  /\ LifeIdle
  /\ dInit = [station |-> HarnessStation, extremes |-> <<>>, datum |-> Null]
  /\ dTrace = <<>>
  /\ HarmonicsIdle

Next ==
  \/ UpdatePosition /\ UNCHANGED <<datumVars, harmonicsVars, lifeVars>>
  \/ CacheSetDone /\ UNCHANGED <<datumVars, harmonicsVars, lifeVars>>
  \/ CacheSetFail /\ UNCHANGED <<datumVars, harmonicsVars, lifeVars>>
  \/ FetchResolve /\ UNCHANGED <<datumVars, harmonicsVars, lifeVars>>
  \/ FetchReject /\ UNCHANGED <<datumVars, harmonicsVars, lifeVars>>
  \/ UpdateTidesTimer /\ UNCHANGED <<datumVars, harmonicsVars, lifeVars>>
  \/ ListResources /\ UNCHANGED <<datumVars, harmonicsVars, lifeVars>>
  \/ Tick /\ UNCHANGED <<datumVars, harmonicsVars, lifeVars>>

Spec == Init /\ [][Next]_vars

\* the datum functions on their own: the engine is not started
InitDatumSpec ==
  /\ InitDatum
  /\ LifeIdle
  /\ props = [enableOfflineFallback |-> FALSE]
  /\ cacheFile = Null
  /\ lastPosition = Null
  /\ lastForecast = Null
  /\ preferredStation = Null
  /\ cycles = [c \in CycleStates |-> 0]
  /\ pluginStatus = ""
  /\ unhandled = FALSE
  /\ clock = 0
  /\ event = Ev("start", Null, Null)
  /\ HarmonicsIdle

NextDatumSpec ==
  \/ CallConvertDatum /\ UNCHANGED <<engineVars, harmonicsVars, lifeVars>>
  \/ CallEstimateMllwOffset /\ UNCHANGED <<engineVars, harmonicsVars, lifeVars>>

SpecDatum == InitDatumSpec /\ [][NextDatumSpec]_vars

\* the harmonics cache manager and the offline source on their own: the engine is not started
InitHarmonicsSpec ==
  /\ InitHarmonics
  /\ LifeIdle
  /\ props = [enableOfflineFallback |-> FALSE]
  /\ cacheFile = Null
  /\ lastPosition = Null
  /\ lastForecast = Null
  /\ preferredStation = Null
  /\ cycles = [c \in CycleStates |-> 0]
  /\ pluginStatus = ""
  /\ unhandled = FALSE
  /\ clock = 0
  /\ event = Ev("start", Null, Null)
  /\ dInit = [station |-> HarnessStation, extremes |-> <<>>, datum |-> Null]
  /\ dTrace = <<>>

NextHarmonics ==
  \/ HAdvance /\ UNCHANGED <<engineVars, datumVars, lifeVars>>
  \/ UpdateIfNeeded /\ UNCHANGED <<engineVars, datumVars, lifeVars>>
  \/ DownloadRegion /\ UNCHANGED <<props, cacheFile, lastPosition, lastForecast,
                                    preferredStation, cycles, unhandled, clock, event,
                                    datumVars, lifeVars>>
  \/ OfflineStart /\ UNCHANGED <<engineVars, datumVars, lifeVars>>
  \/ OfflineForecast /\ UNCHANGED <<engineVars, datumVars, lifeVars>>

SpecHarmonics == InitHarmonicsSpec /\ [][NextHarmonics]_vars

(***************************************************************************)
(* Emitter harness: updateTides and approximateTideHeightAt on forecasts   *)
(* drawn from a bounded set, as the clock advances.                        *)
(***************************************************************************)
\* the times extremes of the harness fall on; every gap divides 12
EmitterTimes == {0, 2, 3, 6}

\* the instants approximateTideHeightAt is asked for
ApproxTimes == 0..6

\* time-ascending extremes: Highs at 2 m, Lows at 0 m, in any succession of types
EmitterExtremes ==
  UNION {
    { [i \in 1..n |-> [time |-> ts[i], value |-> (IF ty[i] = "High" THEN 2000 ELSE 0),
                       type |-> ty[i]]] :
        ts \in { t \in [1..n -> EmitterTimes] : \A k \in 1..(n - 1) : t[k] < t[k + 1] },
        ty \in [1..n -> ExtremeTypes] } :
    n \in 0..MaxExtremes }

\* forecasts a provider resolved to and the engine holds
EmitterForecasts ==
  { [station |-> StationA, extremes |-> ex, datum |-> Null] : ex \in EmitterExtremes }

\* the list in the opposite order
Reverse(s) == [i \in 1..Len(s) |-> s[Len(s) + 1 - i]]

\* a forecast is held after a successful cycle at position 0
InitEmitter ==
  /\ lastForecast \in EmitterForecasts
  /\ preferredStation = lastForecast.station
  /\ lastPosition = Pos(0)
  /\ cacheFile = Pos(0)
  /\ props = [enableOfflineFallback |-> FALSE]
  /\ cycles = [c \in CycleStates |-> 0]
  /\ pluginStatus = "status"
  /\ unhandled = FALSE
  /\ clock = 0
  /\ event = Ev("start", Null, Null)

\* approximateTideHeightAt(extremes, time) on the held extremes, in either order
CallApproximateTideHeightAt ==
  /\ \E extremes \in {lastForecast.extremes, Reverse(lastForecast.extremes)},
        time \in ApproxTimes :
       event' = Ev("approximateTideHeightAt", [extremes |-> extremes, time |-> time],
                   approximateTideHeightAt(extremes, time))
  /\ UNCHANGED <<props, cacheFile, lastPosition, lastForecast, preferredStation,
                 cycles, pluginStatus, unhandled, clock>>

InitEmitterSpec ==
  /\ InitEmitter
  /\ LifeIdle
  /\ dInit = [station |-> HarnessStation, extremes |-> <<>>, datum |-> Null]
  /\ dTrace = <<>>
  /\ HarmonicsIdle

NextEmitter ==
  \/ UpdateTidesTimer /\ UNCHANGED <<datumVars, harmonicsVars, lifeVars>>
  \/ Tick /\ UNCHANGED <<datumVars, harmonicsVars, lifeVars>>
  \/ CallApproximateTideHeightAt /\ UNCHANGED <<datumVars, harmonicsVars, lifeVars>>

SpecEmitter == InitEmitterSpec /\ [][NextEmitter]_vars

(***************************************************************************)
(* Selector harness: update cycles at a vessel position that does not      *)
(* change, with a threshold above 0; the stations that become preferred    *)
(* are recorded in order.                                                  *)
(***************************************************************************)
InitSelector ==
  /\ InitEngine
  /\ Threshold > 0
  /\ dInit = [station |-> HarnessStation, extremes |-> <<>>, datum |-> Null]
  /\ dTrace = <<>>
  /\ HarmonicsIdle
  /\ LifeIdle

\* updatePosition while the vessel stays where it is
UpdatePositionInPlace ==
  /\ UpdatePosition
  /\ lastPosition # Null => lastPosition' = lastPosition

\* a fetch resolves; a station that becomes preferred is added to the record
FetchResolveRecorded ==
  /\ FetchResolve
  /\ trail' = IF preferredStation' # preferredStation
              THEN Append(trail, preferredStation') ELSE trail
  /\ Len(trail') <= MaxSwitches

NextSelector ==
  \/ UpdatePositionInPlace /\ UNCHANGED <<datumVars, harmonicsVars, lifeVars>>
  \/ CacheSetDone /\ UNCHANGED <<datumVars, harmonicsVars, lifeVars>>
  \/ FetchResolveRecorded /\ UNCHANGED <<datumVars, harmonicsVars, stopped>>
  \/ FetchReject /\ UNCHANGED <<datumVars, harmonicsVars, lifeVars>>

SpecSelector == InitSelector /\ [][NextSelector]_vars

(***************************************************************************)
(* Lifecycle harness: the engine with plugin.stop(). The subscription      *)
(* delivers positions until stop() has run; what start() set going         *)
(* otherwise (cycles in flight, the interval timer) goes on as the code    *)
(* leaves it.                                                              *)
(***************************************************************************)
InitLifecycle ==
  /\ InitEngine
  /\ props = [enableOfflineFallback |-> FALSE, stationSwitchThreshold |-> 0]
  /\ cacheFile = Null
  /\ dInit = [station |-> HarnessStation, extremes |-> <<>>, datum |-> Null]
  /\ dTrace = <<>>
  /\ HarmonicsIdle
  /\ LifeIdle

\* the subscription callback: positions are delivered until it is unsubscribed
PositionDelivered ==
  /\ ~stopped
  /\ UpdatePosition

\* stop(): unsubscribes.forEach((f) => f()); unsubscribes = []
Stop ==
  /\ ~stopped
  /\ stopped' = TRUE
  /\ event' = Ev("stop", Null, Null)
  /\ UNCHANGED <<props, cacheFile, lastPosition, lastForecast, preferredStation,
                 cycles, pluginStatus, unhandled, clock>>

NextLifecycle ==
  \/ PositionDelivered /\ UNCHANGED <<datumVars, harmonicsVars, lifeVars>>
  \/ CacheSetDone /\ UNCHANGED <<datumVars, harmonicsVars, lifeVars>>
  \/ FetchResolve /\ UNCHANGED <<datumVars, harmonicsVars, lifeVars>>
  \/ FetchReject /\ UNCHANGED <<datumVars, harmonicsVars, lifeVars>>
  \/ UpdateTidesTimer /\ UNCHANGED <<datumVars, harmonicsVars, lifeVars>>
  \/ Stop /\ UNCHANGED <<datumVars, harmonicsVars, trail>>

SpecLifecycle == InitLifecycle /\ [][NextLifecycle]_vars

(***************************************************************************)
(* Properties of the orchestrator (specification Spec)                     *)
(***************************************************************************)
\* the forecast a fetch has just resolved to
Candidate == event.arg

\* C1: with a preferred station held and a threshold > 0, a fetched candidate
\* replaces the held forecast and the preferred station exactly when
\* distance(vessel, candidate) < distance(vessel, preferred) - threshold;
\* otherwise both are left as they were.
Thm_C1 ==
  [][ (event'.name = "fetchResolved" /\ preferredStation # Null /\ Threshold > 0
       /\ lastPosition # Null)
      => IF getDistance(lastPosition, event'.arg.station.position)
              < getDistance(lastPosition, preferredStation.position) - Threshold
         THEN lastForecast' = event'.arg /\ preferredStation' = event'.arg.station
         ELSE lastForecast' = lastForecast /\ preferredStation' = preferredStation ]_vars

\* preferred C at 1000 m, threshold 10 m, candidate B at 995 m: B was fetched and C is kept
Witness_C1 ==
  /\ event.name = "fetchResolved"
  /\ lastPosition = Pos(0)
  /\ Threshold = 10
  /\ Candidate.station = StationB
  /\ preferredStation = StationC
  /\ lastForecast.station = StationC

\* C2: with no preferred station held, or with a threshold of 0, every fetched
\* candidate becomes the held forecast and its station the preferred station.
Thm_C2 ==
  [][ (event'.name = "fetchResolved" /\ (preferredStation = Null \/ Threshold = 0))
      => lastForecast' = event'.arg /\ preferredStation' = event'.arg.station ]_vars

\* threshold 0: the farthest station C has been fetched and adopted
Witness_C2 ==
  /\ event.name = "fetchResolved"
  /\ Threshold = 0
  /\ lastPosition = Pos(0)
  /\ Candidate.station = StationC
  /\ lastForecast = Candidate
  /\ preferredStation = StationC

\* C3: a failed fetch leaves the held forecast and the preferred station as they
\* were and sets the plugin error status; a held forecast is what listResources
\* returns and what updateTides publishes from, also after the failure.
Thm_C3 ==
  [][ /\ event'.name = "fetchRejected"
         => /\ lastForecast' = lastForecast
            /\ preferredStation' = preferredStation
            /\ pluginStatus' = "error"
      /\ (event'.name = "listResources" /\ lastForecast # Null)
         => event'.out = lastForecast
      /\ (event'.name = "updateTides" /\ lastForecast # Null)
         => /\ event'.out.kind # "none"
            /\ event'.out.kind = "delta"
               => /\ event'.out.stationName = lastForecast.station.name
                  /\ event'.out.values = TideValues(nextTides(lastForecast, clock)) ]_vars

\* the held forecast is served while the plugin status reports the failed fetch
Witness_C3 ==
  /\ event.name = "listResources"
  /\ pluginStatus = "error"
  /\ lastForecast # Null
  /\ event.out = lastForecast

\* C4 (as claimed): when the provider fails and offline fallback is enabled, the
\* cycle ends with an offline forecast held.
Claim_C4 ==
  (event.name = "fetchRejected" /\ props.enableOfflineFallback)
  => (lastForecast # Null /\ lastForecast \in OfflineForecasts)

\* C5: updatePosition resolves the live position, else the persisted one; the
\* resolved position is in the cache file when the provider is called; with
\* neither source the call changes nothing but lastPosition.
Thm_C5 ==
  [][ /\ event'.name = "updatePosition"
         => lastPosition' = (IF event'.arg # Null THEN event'.arg ELSE cacheFile)
      /\ (event'.name = "updatePosition" /\ event'.arg = Null /\ cacheFile = Null)
         => /\ lastPosition' = Null
            /\ UNCHANGED <<cacheFile, lastForecast, preferredStation, cycles,
                           pluginStatus, unhandled>>
      /\ (event'.name = "cacheSet" /\ event'.out # Null)
         => cacheFile' = event'.arg
      /\ \A c \in CycleStates :
           (c[1] = "fetch" /\ cycles'[c] > cycles[c]) => event'.name = "cacheSet" ]_vars

\* no live position: the persisted one was resolved and a cycle was started with it
Witness_C5 ==
  /\ event.name = "updatePosition"
  /\ event.arg = Null
  /\ cacheFile # Null
  /\ lastPosition = cacheFile
  /\ cycles[<<"set", cacheFile>>] > 0

\* a forecast on MSL shifted to MLLW with the offset it is tagged with
Normalize(f) ==
  IF f.datum # Null /\ f.datum.source = "MSL"
  THEN convertDatum(f, [sourceDatum |-> "MSL", mllwToMslOffset |-> f.datum.mllwToMslOffset],
                    "MLLW")
  ELSE f

\* C6 (as claimed): the held forecast is always a provider result brought to MLLW.
Claim_C6 ==
  lastForecast # Null => lastForecast \in { Normalize(f) : f \in ProviderForecasts }

(***************************************************************************)
(* Properties of the datum functions (specification SpecDatum)             *)
(***************************************************************************)
ConvertCalls == { i \in 1..Len(dTrace) : dTrace[i].fn = "convertDatum" }

\* C7: between different datums convertDatum shifts every value by -offset
\* (MSL to MLLW) or +offset (MLLW to MSL) and keeps the number and order of
\* the extremes, their times and types and the station; the forecast passed in
\* is still the one the harness started from.
Thm_C7 ==
  \A i \in ConvertCalls :
    LET c == dTrace[i]
        shift == IF c.info.sourceDatum = "MSL"
                 THEN -c.info.mllwToMslOffset ELSE c.info.mllwToMslOffset
    IN c.info.sourceDatum # c.target
       => /\ c.result.station = c.forecast.station
          /\ c.result.datum = c.forecast.datum
          /\ Len(c.result.extremes) = Len(c.forecast.extremes)
          /\ \A j \in 1..Len(c.forecast.extremes) :
               /\ c.result.extremes[j].time = c.forecast.extremes[j].time
               /\ c.result.extremes[j].type = c.forecast.extremes[j].type
               /\ c.result.extremes[j].value = c.forecast.extremes[j].value + shift
          /\ (i = 1 => c.forecast = dInit)

\* an MSL forecast with extremes was shifted to MLLW by a non-zero offset
Witness_C7 ==
  \E i \in ConvertCalls :
    /\ dTrace[i].info.sourceDatum = "MSL"
    /\ dTrace[i].target = "MLLW"
    /\ dTrace[i].info.mllwToMslOffset = 700
    /\ Len(dTrace[i].forecast.extremes) = MaxLen
    /\ dTrace[i].result.extremes[1].value = dTrace[i].forecast.extremes[1].value - 700

\* C8: with source datum equal to target datum convertDatum returns a forecast
\* equal to its input, whatever the offset, also when applied again.
Thm_C8 ==
  \A i \in ConvertCalls :
    dTrace[i].info.sourceDatum = dTrace[i].target => dTrace[i].result = dTrace[i].forecast

\* two same-datum conversions in a row with a non-zero offset gave back the initial forecast
Witness_C8 ==
  /\ Len(dTrace) = 2
  /\ ConvertCalls = {1, 2}
  /\ \A i \in {1, 2} : /\ dTrace[i].info.sourceDatum = dTrace[i].target
                       /\ dTrace[i].info.mllwToMslOffset # 0
  /\ dInit.extremes # <<>>
  /\ dTrace[2].forecast = dTrace[1].result
  /\ dTrace[2].result = dInit

\* call i converts MSL to MLLW and call i + 1 converts its result back with the same offset
RoundTripAt(i) ==
  /\ i \in ConvertCalls /\ i + 1 \in ConvertCalls
  /\ dTrace[i].info.sourceDatum = "MSL" /\ dTrace[i].target = "MLLW"
  /\ dTrace[i + 1].info.sourceDatum = "MLLW" /\ dTrace[i + 1].target = "MSL"
  /\ dTrace[i + 1].info.mllwToMslOffset = dTrace[i].info.mllwToMslOffset
  /\ dTrace[i + 1].forecast = dTrace[i].result

\* C9: MSL to MLLW and back with the same offset gives the original extremes.
Thm_C9 ==
  \A i \in 1..Len(dTrace) :
    RoundTripAt(i) => dTrace[i + 1].result.extremes = dTrace[i].forecast.extremes

\* a round trip with offset 700 over a forecast with extremes
Witness_C9 ==
  \E i \in 1..Len(dTrace) :
    /\ RoundTripAt(i)
    /\ dTrace[i].info.mllwToMslOffset = 700
    /\ dTrace[i].forecast.extremes # <<>>
    /\ dTrace[i].result.extremes # dTrace[i].forecast.extremes

\* the values of the Low extremes of a forecast
LowValues(f) == { f.extremes[j].value : j \in { k \in 1..Len(f.extremes) : f.extremes[k].type = "Low" } }

\* C10: estimateMllwOffset is |m| + 0.2 m for the minimum m of the Low values
\* when m < 0, and 0 when m >= 0 or there is no Low; lowest Low -0.5 gives 0.7,
\* lowest Low 0.3 gives 0.
Thm_C10 ==
  \A i \in 1..Len(dTrace) :
    dTrace[i].fn = "estimateMllwOffset"
    => LET lows == LowValues(dTrace[i].forecast)
           r == dTrace[i].result
       IN /\ lows = {} => r = 0
          /\ lows # {} =>
               LET m == CHOOSE v \in lows : \A w \in lows : v <= w
               IN /\ m < 0 => r = -m + 200
                  /\ m >= 0 => r = 0
                  /\ m = -500 => r = 700
                  /\ m = 300 => r = 0

\* lowest Low 0.3 with a High of -0.5 next to it: the estimate is 0
Witness_C10 ==
  \E i \in 1..Len(dTrace) :
    /\ dTrace[i].fn = "estimateMllwOffset"
    /\ LowValues(dTrace[i].forecast) = {300}
    /\ \E j \in 1..Len(dTrace[i].forecast.extremes) :
         /\ dTrace[i].forecast.extremes[j].type = "High"
         /\ dTrace[i].forecast.extremes[j].value = -500
    /\ dTrace[i].result = 0

(***************************************************************************)
(* Properties of the harmonics cache (specification SpecHarmonics)         *)
(***************************************************************************)
\* what loadMetadata() and loadCache() read in this state
HMeta == loadMetadata(metadataFile)
HCache == loadCache(harmonicsFile)

\* the check an updateIfNeeded call has just made, and the position it was made for
Check == hEvent.out.check
Asked == hEvent.arg

AgeDays == hNow - HMeta.lastUpdate

Expired ==
  \/ hConfig.updateFrequency = "quarterly" /\ AgeDays > 90
  \/ hConfig.updateFrequency = "semiannual" /\ AgeDays > 180
  \/ hConfig.updateFrequency = "annual" /\ AgeDays > 365

LeftRegion == getDistance(Asked, HMeta.center) > 300 * 1852

\* cached stations within autoDownloadRadius of the position asked for
NearbyCached ==
  Cardinality({ i \in 1..Len(HCache.stations) :
                  Abs(Asked.latitude - HCache.stations[i].lat)
                    <= hConfig.autoDownloadRadius * 1852 })

UpdateReturned ==
  \/ hEvent.name = "downloadRegion" /\ hEvent.out.done
  \/ hEvent.name = "updateIfNeeded" /\ hEvent.out.done /\ hEvent.out.check.update

\* the downloadRegion calls of that updateIfNeeded call: radius and stations returned
Attempts == hEvent.out.attempts

\* what holds of the attempts whatever the configuration
AttemptsInRange ==
  /\ Attempts # <<>> => Attempts[1].radius = hConfig.autoDownloadRadius
  /\ \A i \in 2..Len(Attempts) : Attempts[i].radius = Attempts[i - 1].radius + 200
  /\ \A i \in 1..Len(Attempts) : Attempts[i].radius <= hConfig.maxRadius
  /\ \A i \in 1..(Len(Attempts) - 1) : Attempts[i].stations < hConfig.minStations
  /\ Len(Attempts) <= ((hConfig.maxRadius - hConfig.autoDownloadRadius) \div 200) + 1

\* C13 (as claimed): the attempts start at autoDownloadRadius, go up by 200,
\* stay within maxRadius, stop after the first sufficient one, number at most
\* floor((maxRadius - autoDownloadRadius) / 200) + 1, and without expansion
\* exactly one attempt is made, for every configuration.
Claim_C13 ==
  UpdateReturned =>
    /\ AttemptsInRange
    /\ ~hConfig.expandRadiusIfNeeded => Len(Attempts) = 1

\* C13 (amended): as claimed, except that exactly one attempt is made without
\* expansion only when autoDownloadRadius <= maxRadius; with autoDownloadRadius >
\* maxRadius no attempt is made. While the loop runs the next radius is within
\* maxRadius and the attempts made are fewer than the bound.
Thm_C13 ==
  /\ UpdateReturned =>
       /\ AttemptsInRange
       /\ (~hConfig.expandRadiusIfNeeded /\ hConfig.autoDownloadRadius <= hConfig.maxRadius)
            => Len(Attempts) = 1
       /\ hConfig.autoDownloadRadius > hConfig.maxRadius => Len(Attempts) = 0
  /\ hRun # Null =>
       /\ hRun.radius <= hConfig.maxRadius
       /\ hRun.radius = hConfig.autoDownloadRadius + 200 * Len(hRun.attempts)
       /\ Len(hRun.attempts)
            < ((hConfig.maxRadius - hConfig.autoDownloadRadius) \div 200) + 1

\* no station at 500, 700 and 900 nm with maxRadius 1000: three attempts, then the return
Witness_C13 ==
  /\ UpdateReturned
  /\ hConfig = DefaultHarmonicsConfig
  /\ Attempts = <<[radius |-> 500, stations |-> 0], [radius |-> 700, stations |-> 0],
                  [radius |-> 900, stations |-> 0]>>

\* a database with at least one station
Usable(database) == database # Null /\ Len(database.stations) >= 1

\* C14 (as claimed): when a usable database was persisted before updateIfNeeded,
\* then after the call, whatever the downloads came to, the persisted primary
\* still has at least one station and so has the database returned.
Claim_C14 ==
  [][ (/\ hEvent'.name \in {"downloadRegion", "updateIfNeeded"}
       /\ hEvent'.out.done
       /\ hEvent'.out.fail = "none"
       /\ Usable(loadCache(harmonicsFile)))
      => (Usable(loadCache(harmonicsFile')) /\ Usable(hEvent'.out.returned)) ]_vars

\* C15 (as claimed): downloadRegion never returns a database without stations.
Claim_C15 ==
  hEvent.name = "downloadRegion"
  => (hEvent.out.database = Null \/ Len(hEvent.out.database.stations) >= 1)

\* C16: saveCache copies the existing primary to the backup, then writes the
\* primary, then the metadata: after a save whose writes all succeed the backup
\* is the previous primary, the primary the new database and the metadata its
\* summary; a save stopped at the primary has already written the backup, one
\* stopped at the metadata has already written the primary.
Thm_C16 ==
  [][ (hEvent'.name = "downloadRegion" /\ hEvent'.out.done /\ hEvent'.out.database # Null)
      => LET database == hEvent'.out.database
             fail == hEvent'.out.fail
             backedUp == (harmonicsFile # Null => backupFile' = harmonicsFile)
         IN /\ fail = "none"
                 => /\ backedUp
                    /\ loadCache(harmonicsFile') = database
                    /\ loadMetadata(metadataFile').center = database.center
                    /\ loadMetadata(metadataFile').radiusNM = database.radiusNM
                    /\ loadMetadata(metadataFile').stationCount = Len(database.stations)
            /\ fail = "backup"
                 => (harmonicsFile' = harmonicsFile /\ metadataFile' = metadataFile)
            /\ fail = "primary" => (backedUp /\ metadataFile' = metadataFile)
            /\ fail = "metadata" => (backedUp /\ loadCache(harmonicsFile') = database) ]_vars

\* a second database was saved: the backup holds the first, the primary the second
Witness_C16 ==
  /\ hEvent.name = "downloadRegion"
  /\ hEvent.out.done
  /\ hEvent.out.fail = "none"
  /\ hEvent.out.database # Null
  /\ backupFile = Stringify(PersistedDatabase)
  /\ HCache = hEvent.out.database
  /\ HCache # PersistedDatabase
  /\ HMeta.stationCount = Len(HCache.stations)

\* C17 (as claimed): a forecast of the offline source is computed from the
\* database the primary file holds when the forecast is asked for.
Claim_C17 ==
  (hEvent.name = "offlineForecast" /\ HCache # Null) => hEvent.arg.database = HCache

(***************************************************************************)
(* Properties of the emitter (specifications SpecEmitter and Spec)         *)
(***************************************************************************)
\* the extremes and the instant approximateTideHeightAt was just called with
ApproxExtremes == event.arg.extremes
ApproxTime == event.arg.time

\* the extremes at or before, and at or after, that instant
AtOrBefore == { i \in 1..Len(ApproxExtremes) : ApproxExtremes[i].time <= ApproxTime }
AtOrAfter == { i \in 1..Len(ApproxExtremes) : ApproxExtremes[i].time >= ApproxTime }

\* C18 (as claimed): approximateTideHeightAt gives an extreme's value at the
\* time of that extreme and a value between the two neighbouring extremes'
\* values in between; for a Low of 0.0 at t0 and a High of 2.0 six hours later
\* it gives 1.0 at the midpoint, 0.0 at t0 and 2.0 at t1.
Claim_C18 ==
  event.name = "approximateTideHeightAt" =>
    /\ \A i \in 1..Len(ApproxExtremes) :
         ApproxExtremes[i].time = ApproxTime => event.out = Height(ApproxExtremes[i].value)
    /\ (AtOrBefore # {} /\ AtOrAfter # {})
         => /\ ~event.out.throws /\ ~event.out.nan
            /\ \E i \in AtOrBefore, j \in AtOrAfter :
                 \/ ApproxExtremes[i].value <= event.out.value
                    /\ event.out.value <= ApproxExtremes[j].value
                 \/ ApproxExtremes[j].value <= event.out.value
                    /\ event.out.value <= ApproxExtremes[i].value
    /\ ApproxExtremes = <<[time |-> 0, value |-> 0, type |-> "Low"],
                          [time |-> 6, value |-> 2000, type |-> "High"]>>
         => /\ ApproxTime = 3 => event.out = Height(1000)
            /\ ApproxTime = 0 => event.out = Height(0)
            /\ ApproxTime = 6 => event.out = Height(2000)

\* C19 (as claimed): an updateTides run that finds no extreme before now, or
\* none after, ends with the error as plugin status and no rejection left
\* unhandled.
Claim_C19 ==
  (event.name \in {"updateTides", "fetchResolved"}
   /\ "kind" \in DOMAIN event.out /\ event.out.kind = "rejected")
  => (pluginStatus = "error" /\ ~unhandled)

\* the values of a published delta that carry the height of the next extreme of a type
PairsOf(type) ==
  { i \in 1..Len(event.out.values) : event.out.values[i].path = HeightPath(type) }

\* the unexpired extremes of a type in the held forecast
Unexpired(type) ==
  { i \in 1..Len(lastForecast.extremes) :
      lastForecast.extremes[i].type = type /\ lastForecast.extremes[i].time >= clock }

\* C20 (as claimed): a published delta carries at most one pair per type, a
\* pair for every type with an unexpired extreme, and each pair is the
\* earliest unexpired extreme of its type.
Claim_C20 ==
  (event.name = "updateTides" /\ event.out.kind = "delta") =>
    \A type \in ExtremeTypes :
      /\ Cardinality(PairsOf(type)) <= 1
      /\ Unexpired(type) # {} <=> PairsOf(type) # {}
      /\ \A i \in PairsOf(type) :
           \E k \in Unexpired(type) :
             /\ \A m \in Unexpired(type) :
                  lastForecast.extremes[k].time <= lastForecast.extremes[m].time
             /\ event.out.values[i].value = lastForecast.extremes[k].value
             /\ event.out.values[i + 1].path = TimePath(type)
             /\ event.out.values[i + 1].value = lastForecast.extremes[k].time

(***************************************************************************)
(* Properties of change detection, the resource and the update cycles      *)
(***************************************************************************)
\* the step that ran last handed a delta to app.handleMessage
Published(e) ==
  /\ e.name \in {"updateTides", "fetchResolved"}
  /\ "kind" \in DOMAIN e.out
  /\ e.out.kind = "delta"

\* {stationName, nextLowTime, nextHighTime} of a published delta
Fingerprint(delta) ==
  [stationName |-> delta.stationName,
   times |-> { delta.values[i] : i \in { j \in 1..Len(delta.values) :
                 delta.values[j].path \in {TimePath("Low"), TimePath("High")} } }]

\* C21 (as claimed): the emitter publishes only when the fingerprint differs
\* from the last published one: a timer run that comes straight after a
\* publication, with the held forecast and the clock as they were, publishes
\* nothing.
Claim_C21 ==
  [][ (Published(event) /\ event'.name = "updateTides" /\ Published(event')
       /\ lastForecast' = lastForecast)
      => Fingerprint(event'.out) # Fingerprint(event.out) ]_vars

\* C22 (as claimed): listResources leaves the held forecast and the preferred
\* station alone; a held forecast is returned without a provider call; with
\* none held the provider is asked for the last known position, or the call
\* fails with 'No position available' when there is no position either.
Claim_C22 ==
  [][ event'.name = "listResources"
      => /\ lastForecast' = lastForecast
         /\ preferredStation' = preferredStation
         /\ lastForecast # Null
            => (event'.out = lastForecast /\ event'.arg.request = Null)
         /\ (lastForecast = Null /\ lastPosition = Null)
            => (event'.out = [error |-> "No position available"]
                /\ event'.arg.request = Null)
         /\ (lastForecast = Null /\ lastPosition # Null)
            => (event'.arg.request # Null
                /\ event'.arg.request.position = lastPosition) ]_vars

\* C23 (as claimed): a forecast returned for a request with a date is the
\* provider's prediction for that date, and one returned for a request without
\* date is a prediction for the default window, whether or not a forecast is held.
Claim_C23 ==
  (event.name = "listResources" /\ "error" \notin DOMAIN event.out)
  => IF event.arg.query.date # Null
     THEN event.arg.request # Null /\ event.arg.request.date = event.arg.query.date
     ELSE event.arg.request = Null \/ event.arg.request.date = Null

\* C24 (as claimed): at most one update cycle is in flight at any time.
Claim_C24 == InFlight <= 1

\* C26 (as claimed): a held forecast has at least one extreme.
Claim_C26 == lastForecast # Null => Len(lastForecast.extremes) >= 1

(***************************************************************************)
(* Properties of downloadRegion (specification SpecHarmonics)              *)
(***************************************************************************)
\* the database the downloadRegion call that just returned produced, or Null
Downloaded == IF hEvent.name = "downloadRegion" THEN hEvent.out.database ELSE Null

\* the names among a station's constituents
ConstituentNames(station) ==
  { station.constituents[k] : k \in 1..Len(station.constituents) }

\* the ids of the stations of a database
StationIds(database) == { database.stations[i].id : i \in 1..Len(database.stations) }

\* C25 (as claimed): every station of a database produced by downloadRegion,
\* and every station of a persisted database, carries each of the 8 primary
\* constituents.
Claim_C25 ==
  /\ Downloaded # Null
     => \A i \in 1..Len(Downloaded.stations) :
          PrimaryNames \subseteq ConstituentNames(Downloaded.stations[i])
  /\ HCache # Null
     => \A i \in 1..Len(HCache.stations) :
          PrimaryNames \subseteq ConstituentNames(HCache.stations[i])

\* C27 (as claimed): when the catalog fetch succeeds, the stations of the
\* database are exactly the catalog stations within the radius whose harmonics
\* fetch succeeded and whose data names all 8 primary constituents, whatever
\* happened to the other stations.
Claim_C27 ==
  Downloaded # Null
  => StationIds(Downloaded)
       = { hEvent.arg.nearby[i].station.id :
             i \in { j \in 1..Len(hEvent.arg.nearby) :
                       /\ hEvent.arg.nearby[j].harmonicsData.ok
                       /\ PrimaryNames \subseteq
                            { hEvent.arg.nearby[j].harmonicsData.names[k] :
                                k \in 1..Len(hEvent.arg.nearby[j].harmonicsData.names) } } }

\* C28: a database returned by downloadRegion has its stations in
\* non-increasing latitude order, carries the requested center and radius and
\* the day of the download, and holds only stations of this download, each
\* once; when it is saved without a failed write the primary file holds
\* exactly this database.
Thm_C28 ==
  Downloaded # Null
  => /\ \A i \in 1..(Len(Downloaded.stations) - 1) :
          Downloaded.stations[i].lat >= Downloaded.stations[i + 1].lat
     /\ Downloaded.center = hEvent.arg.center
     /\ Downloaded.radiusNM = hEvent.arg.radiusNM
     /\ Downloaded.version = hNow
     /\ StationIds(Downloaded)
          \subseteq { hEvent.arg.nearby[i].station.id : i \in 1..Len(hEvent.arg.nearby) }
     /\ Cardinality(StationIds(Downloaded)) = Len(Downloaded.stations)
     /\ (hEvent.out.done /\ hEvent.out.fail = "none") => HCache = Downloaded

\* a download that met the stations in ascending latitude order replaced a
\* persisted database by one with two stations, northernmost first
Witness_C28 ==
  /\ Downloaded # Null
  /\ Len(Downloaded.stations) = 2
  /\ Downloaded.stations[1].lat > Downloaded.stations[2].lat
  /\ hEvent.arg.nearby[1].station.lat < hEvent.arg.nearby[2].station.lat
  /\ hEvent.out.done /\ hEvent.out.fail = "none"
  /\ backupFile # Null

(***************************************************************************)
(* Properties of the emitter within the engine (specification Spec)        *)
(***************************************************************************)
\* the next extreme of a forecast at an instant, or Null
NextExtreme(forecast, now) ==
  IF forecast = Null \/ nextTides(forecast, now) = <<>> THEN Null
  ELSE nextTides(forecast, now)[1]

\* C29 (as claimed): when an update cycle changes the held forecast's station
\* or its next extreme, the emitter cycle that follows publishes the new state.
Claim_C29 ==
  [][ (event'.name = "fetchResolved" /\ lastForecast' # Null
       /\ (\/ lastForecast = Null
           \/ lastForecast.station # lastForecast'.station
           \/ NextExtreme(lastForecast, clock) # NextExtreme(lastForecast', clock)))
      => /\ Published(event')
         /\ event'.out.stationName = lastForecast'.station.name
         /\ event'.out.values = TideValues(nextTides(lastForecast', clock)) ]_vars

\* C30: a run of updateTides leaves the held forecast, the preferred station
\* and the last known position as they were, whether it publishes, fails or
\* does nothing, and does nothing when no forecast is held; the held forecast
\* and the preferred station change only when a provider fetch of
\* updateForecast resolves, the last known position only in updatePosition.
Thm_C30 ==
  [][ /\ event'.name = "updateTides"
         => /\ lastForecast' = lastForecast
            /\ preferredStation' = preferredStation
            /\ lastPosition' = lastPosition
            /\ lastForecast = Null => event'.out.kind = "none"
      /\ (lastForecast' # lastForecast \/ preferredStation' # preferredStation)
         => event'.name = "fetchResolved"
      /\ lastPosition' # lastPosition => event'.name = "updatePosition" ]_vars

\* a timer run failed while a forecast, a preferred station and a position were held
Witness_C30 ==
  /\ event.name = "updateTides"
  /\ event.out.kind = "rejected"
  /\ lastForecast # Null
  /\ preferredStation # Null
  /\ lastPosition # Null

(***************************************************************************)
(* Properties of updateIfNeeded and saveCache (specification SpecHarmonics)*)
(***************************************************************************)
\* C31: when shouldUpdate answers no update, updateIfNeeded returns at once
\* with what loadCache() reads, starts no download and leaves the primary,
\* the backup and the metadata file as they were.
Thm_C31 ==
  [][ (hEvent'.name = "updateIfNeeded" /\ ~hEvent'.out.check.update)
      => /\ hEvent'.out.done
         /\ hEvent'.out.returned = loadCache(harmonicsFile)
         /\ hEvent'.out.attempts = <<>>
         /\ hRun' = Null
         /\ hUpdates' = hUpdates
         /\ harmonicsFile' = harmonicsFile
         /\ backupFile' = backupFile
         /\ metadataFile' = metadataFile ]_vars

\* the cache was found current and the persisted database was returned
Witness_C31 ==
  /\ hEvent.name = "updateIfNeeded"
  /\ Check = [update |-> FALSE, reason |-> Reason("Cache is current", 0)]
  /\ hEvent.out.done
  /\ hEvent.out.returned # Null
  /\ hEvent.out.returned = HCache
  /\ HMeta # Null

\* the metadata sidecar describes the database of the primary file
Describes(metadata, database) ==
  /\ metadata.center = database.center
  /\ metadata.radiusNM = database.radiusNM
  /\ metadata.stationCount = Len(database.stations)
  /\ metadata.noaaVersion = database.version

\* C32 (as claimed): after a saveCache in which a write failed, no file is
\* left half-written, and the primary and the metadata sidecar are both absent
\* or describe the same database.
Claim_C32 ==
  (hEvent.name = "downloadRegion" /\ hEvent.out.done /\ hEvent.out.fail # "none")
  => /\ harmonicsFile # Corrupt
     /\ metadataFile # Corrupt
     /\ HCache = Null <=> HMeta = Null
     /\ HCache # Null => Describes(HMeta, HCache)

\* C37 (as claimed): with the metadata sidecar readable and the primary
\* database missing or unreadable, shouldUpdate answers update.
Claim_C37 ==
  (hEvent.name = "updateIfNeeded" /\ HMeta # Null /\ HCache = Null) => Check.update

\* the catalog stations with convertible harmonics within a radius of a position
ConvertibleWithin(position, radiusNM) ==
  { st \in {CatalogH1, CatalogH2} :
      /\ st.id \in hEvent.arg.convertible
      /\ WithinNM(position, [latitude |-> st.lat, longitude |-> st.lng], radiusNM) }

\* every attempt of the call was answered from the catalog the last one saw
StableCatalog ==
  \A i \in 1..Len(Attempts) :
    Attempts[i].stations
      = Cardinality(ConvertibleWithin(hEvent.arg.center, Attempts[i].radius))

\* C38 (as claimed): with expansion enabled and autoDownloadRadius <= maxRadius,
\* when the catalog has at least minStations convertible stations within
\* maxRadius of the position and every write succeeds, updateIfNeeded returns
\* and persists a database with at least minStations stations.
Claim_C38 ==
  (/\ hEvent.name = "downloadRegion"
   /\ hEvent.out.done
   /\ hEvent.out.fail = "none"
   /\ hConfig.expandRadiusIfNeeded
   /\ hConfig.autoDownloadRadius <= hConfig.maxRadius
   /\ StableCatalog
   /\ Cardinality(ConvertibleWithin(hEvent.arg.center, hConfig.maxRadius))
        >= hConfig.minStations)
  => /\ hEvent.out.returned # Null
     /\ Len(hEvent.out.returned.stations) >= hConfig.minStations
     /\ HCache = hEvent.out.returned

(***************************************************************************)
(* Properties of the held state (specification Spec)                       *)
(***************************************************************************)
\* the preferred station is that of the held forecast; both are empty together
Coherent ==
  IF lastForecast = Null THEN preferredStation = Null
  ELSE preferredStation = lastForecast.station

\* C33: in every state the preferred station is empty exactly when the held
\* forecast is, and otherwise is the held forecast's station; the preferred
\* station changes only when a fetch resolves, to the station of the fetched
\* forecast and together with the held forecast, and never when a fetch is
\* rejected.
Thm_C33 ==
  /\ []Coherent
  /\ [][ /\ preferredStation' # preferredStation
            => /\ event'.name = "fetchResolved"
               /\ preferredStation' = event'.arg.station
               /\ lastForecast' = event'.arg
         /\ event'.name = "fetchRejected"
            => (preferredStation' = preferredStation /\ lastForecast' = lastForecast) ]_vars

\* a fetch resolved to a forecast of another station and was not adopted
Witness_C33 ==
  /\ event.name = "fetchResolved"
  /\ event.arg.station # preferredStation
  /\ lastForecast # Null
  /\ preferredStation = lastForecast.station

\* C35 (as claimed): with a threshold > 0, a successful fetch that returns a
\* forecast for the preferred station replaces the held forecast by the
\* fetched one.
Claim_C35 ==
  [][ (/\ event'.name = "fetchResolved"
       /\ Threshold > 0
       /\ lastPosition # Null
       /\ preferredStation # Null
       /\ event'.arg.station = preferredStation)
      => lastForecast' = event'.arg ]_vars

(***************************************************************************)
(* Properties of the selector at a fixed position (SpecSelector) and of    *)
(* stop() (SpecLifecycle)                                                  *)
(***************************************************************************)
\* the distance of the i-th preferred station from the vessel
TrailDistance(i) == getDistance(lastPosition, trail[i].position)

\* C34: with a threshold > 0 and the vessel staying where it is, every switch
\* lowers the preferred station's distance by more than the threshold, no
\* station becomes preferred a second time, and the number of switches stays
\* below the first station's distance divided by the threshold.
Thm_C34 ==
  /\ \A i \in 1..(Len(trail) - 1) : TrailDistance(i + 1) < TrailDistance(i) - Threshold
  /\ \A i, j \in 1..Len(trail) : i < j => trail[i] # trail[j]
  /\ Len(trail) >= 1 => (Len(trail) - 1) * Threshold < TrailDistance(1)

\* after one switch the station left behind is offered again and is not taken back
Witness_C34 ==
  /\ Len(trail) = 2
  /\ event.name = "fetchResolved"
  /\ event.arg.station = trail[1]
  /\ preferredStation = trail[2]

\* C36 (as claimed): once stop() has returned, no tide delta is published and
\* no provider fetch is started.
Claim_C36 ==
  [][ stopped
      => /\ ~Published(event')
         /\ ~(event'.name = "cacheSet" /\ event'.out # Null) ]_vars

====
